---------------------------- MODULE Spec2Model ----------------------------
(***************************************************************************)
(* A model of pygmm/model.py: the Parameter hierarchy (check), the Model   *)
(* constructor (__init__ / _check_inputs), the scalar accessors (pga, pgv, *)
(* pgd and their ln_std_* companions) and the interpolating accessors      *)
(* (interp_spec_accels, interp_ln_stds).                                   *)
(*                                                                         *)
(* Python values are tagged tuples so that values of different Python      *)
(* types can be stored in one variable and compared:                       *)
(*   None            <<"None">>                                            *)
(*   an int/float    <<"num", n>>                                          *)
(*   a str           <<"str", s>>                                          *)
(*   a class object  <<"type", name>>                                      *)
(*   a rational      <<"rat", n, d>>       (log-domain numbers)            *)
(*   c * e^(n/d)     <<"real", c, n, d>>   (linear-domain numbers)         *)
(*   an ndarray      <<"array", seq>>                                      *)
(***************************************************************************)
EXTENDS Integers, Sequences, FiniteSets, TLC

VARIABLES
    PARAMS,       \* Model.PARAMS: the declared Parameter objects, in order
    kwds,         \* the keyword arguments given to Model(**kwds)
    params,       \* Model.params: name -> value
    pc,           \* where the running operation stands
    i,            \* _check_inputs: position of the loop over PARAMS
    log,          \* the records handed to the logging module, in order
    exc,          \* the exception propagating to the caller, or None
    PERIODS,      \* Model.PERIODS
    INDICES_PSA,  \* Model.INDICES_PSA
    INDEX_PGA,    \* Model.INDEX_PGA
    INDEX_PGV,    \* Model.INDEX_PGV
    INDEX_PGD,    \* Model.INDEX_PGD
    PGV_SCALE,    \* Model.PGV_SCALE
    PGD_SCALE,    \* Model.PGD_SCALE
    _ln_resp,     \* Model._ln_resp
    _ln_std,      \* Model._ln_std
    call,         \* the last call made by the caller: <<operation, argument>>
    ret           \* how that call ended: <<"return", value>> or <<"raise", exception>>

vars == <<PARAMS, kwds, params, pc, i, log, exc, PERIODS, INDICES_PSA, INDEX_PGA,
          INDEX_PGV, INDEX_PGD, PGV_SCALE, PGD_SCALE, _ln_resp, _ln_std,
          call, ret>>

paramVars == <<PARAMS, kwds, params, pc, i, log, exc>>
respVars  == <<PERIODS, INDICES_PSA, INDEX_PGA, INDEX_PGV, INDEX_PGD, PGV_SCALE,
               PGD_SCALE, _ln_resp, _ln_std>>

---------------------------------------------------------------------------
(* Python values *)

None == <<"None">>
Num(n) == <<"num", n>>
Str(s) == <<"str", s>>
Type(t) == <<"type", t>>
Array(s) == <<"array", s>>

IsNone(v) == v = None

\* value < limit on two numbers
Less(a, b) == a[2] < b[2]

---------------------------------------------------------------------------
(* Bounds of the model *)

\* numeric values, limits and defaults range over 0..MaxVal
MaxVal == 3
\* check() is applied at most MaxCalls times in a run of SpecParam
MaxCalls == 2
\* a model class declares at most MaxParams parameters
MaxParams == 2
\* a caller asks for at most MaxQueryLen periods at once
MaxQueryLen == 2
\* the periods asked for are 2^0 .. 2^MaxLogPeriod seconds
MaxLogPeriod == 8

---------------------------------------------------------------------------
(* Parameter, NumericParameter, CategoricalParameter *)

\* Parameter.__init__ / NumericParameter.__init__
NumericParameter(name, required, min, max, default) ==
    [cls |-> "NumericParameter", name |-> name, required |-> required,
     default |-> default, min |-> min, max |-> max, options |-> <<>>]

\* CategoricalParameter.__init__ (options or [])
CategoricalParameter(name, required, options, default) ==
    [cls |-> "CategoricalParameter", name |-> name, required |-> required,
     default |-> default, min |-> None, max |-> None, options |-> options]

\* a logging record: logging.warning / logging.error with the message's fields
Event(level, name, value, text, detail) ==
    [level |-> level, name |-> name, value |-> value, text |-> text,
     detail |-> detail]

\* the outcome of one check(value): either an exception or a value, and the
\* records logged on the way
Raised(e) == [raised |-> TRUE, exc |-> e, value |-> None, events |-> <<>>]
Returned(v, ev) == [raised |-> FALSE, exc |-> None, value |-> v, events |-> ev]

ValueError(name) == <<"ValueError", name, "is a required parameter">>

\* value not in self.options
NotIn(value, options) == \A k \in 1..Len(options) : options[k] # value

\* a faulty NumericParameter.check: a value outside the limits is clamped
NumericCheckClamped(p, value) ==
    IF IsNone(value) /\ p.required THEN Raised(ValueError(p.name))
    ELSE IF IsNone(value) THEN Returned(p.default, <<>>)
    ELSE IF ~IsNone(p.min) /\ Less(value, p.min)
        THEN Returned(p.min, <<Event("warning", p.name, value,
                                     "is less than the recommended limit", p.min)>>)
    ELSE IF ~IsNone(p.max) /\ Less(p.max, value)
        THEN Returned(p.max, <<Event("warning", p.name, value,
                                     "is greater than the recommended limit", p.max)>>)
    ELSE Returned(value, <<>>)

\* NumericParameter.check
NumericCheck(p, value) ==
    IF IsNone(value) /\ p.required THEN Raised(ValueError(p.name))
    ELSE IF IsNone(value) THEN Returned(p.default, <<>>)
    ELSE IF ~IsNone(p.min) /\ Less(value, p.min)
        THEN Returned(value, <<Event("warning", p.name, value,
                                     "is less than the recommended limit", p.min)>>)
    ELSE IF ~IsNone(p.max) /\ Less(p.max, value)
        THEN Returned(value, <<Event("warning", p.name, value,
                                     "is greater than the recommended limit", p.max)>>)
    ELSE Returned(value, <<>>)

\* a faulty CategoricalParameter.check: the level does not follow required
CategoricalCheckWarnOnly(p, value) ==
    IF IsNone(value) /\ p.required THEN Raised(ValueError(p.name))
    ELSE IF IsNone(value) THEN Returned(p.default, <<>>)
    ELSE IF NotIn(value, p.options)
        THEN Returned(value, <<Event("warning", p.name, value,
                                     "is not one of the options", Array(p.options))>>)
    ELSE Returned(value, <<>>)

\* CategoricalParameter.check
CategoricalCheck(p, value) ==
    IF IsNone(value) /\ p.required THEN Raised(ValueError(p.name))
    ELSE IF IsNone(value) THEN Returned(p.default, <<>>)
    ELSE IF NotIn(value, p.options)
        THEN Returned(value, <<Event(IF p.required THEN "error" ELSE "warning",
                                     p.name, value, "is not one of the options",
                                     Array(p.options))>>)
    ELSE Returned(value, <<>>)

\* a faulty check: a required parameter left out gets its default
CheckNoRaise(p, value) ==
    IF IsNone(value) THEN Returned(p.default, <<>>)
    ELSE IF p.cls = "NumericParameter" THEN NumericCheck(p, value)
    ELSE CategoricalCheck(p, value)

\* p.check(value): dispatch on the parameter's class
Check(p, value) ==
    IF p.cls = "NumericParameter" THEN NumericCheck(p, value)
    ELSE CategoricalCheck(p, value)

---------------------------------------------------------------------------
(* Inputs of the parameter checks *)

NumValues == {Num(n) : n \in 0..MaxVal}
Limits == {None} \cup NumValues
StrValues == {Str("SS"), Str("NM"), Str("RS"), Str("XX"), Str("")}
OptionLists == {<<>>, <<Str("SS")>>, <<Str("SS"), Str("NM"), Str("RS")>>}

NumericPool ==
    {NumericParameter("mag", r, lo, hi, d) :
        r \in BOOLEAN, lo \in Limits, hi \in Limits, d \in {None, Num(1)}}

CategoricalPool ==
    {CategoricalParameter("mechanism", r, o, d) :
        r \in BOOLEAN, o \in OptionLists, d \in {Str(""), Str("SS")}}

\* the values a caller may hand to check() of a parameter of class cls
ValuesFor(p) ==
    {None} \cup (IF p.cls = "NumericParameter" THEN NumValues ELSE StrValues)

\* the class attributes and response arrays of a Model that is not looked at
NoResponse ==
    /\ PERIODS = Array(<<>>)
    /\ INDICES_PSA = Array(<<>>)
    /\ INDEX_PGA = None
    /\ INDEX_PGV = None
    /\ INDEX_PGD = None
    /\ PGV_SCALE = 1
    /\ PGD_SCALE = 1
    /\ _ln_resp = None
    /\ _ln_std = None

---------------------------------------------------------------------------
(* SpecParam: check() as a function of the parameter and the value *)

InitParam ==
    /\ PARAMS \in {<<p>> : p \in NumericPool \cup CategoricalPool}
    /\ kwds = <<>>
    /\ params = <<>>
    /\ pc = "idle"
    /\ i = 0
    /\ log = <<>>
    /\ exc = None
    /\ NoResponse
    /\ call = <<"none", None>>
    /\ ret = <<"none", None>>

\* the caller applies PARAMS[1].check(v); i counts the calls
CallCheck ==
    /\ pc = "idle"
    /\ i < MaxCalls
    /\ \E v \in ValuesFor(PARAMS[1]) :
         LET r == Check(PARAMS[1], v) IN
           /\ call' = <<"check", v>>
           /\ ret' = IF r.raised THEN <<"raise", r.exc>> ELSE <<"return", r.value>>
           /\ log' = log \o r.events
           /\ exc' = IF r.raised THEN r.exc ELSE None
    /\ i' = i + 1
    /\ UNCHANGED <<PARAMS, kwds, params, pc>>
    /\ UNCHANGED respVars

NextParam == CallCheck

SpecParam == InitParam /\ [][NextParam]_vars

---------------------------------------------------------------------------
(* Claims about check() *)

\* the value handed to the last check() lies outside the parameter's limits
OutOfRange(p, v) ==
    \/ ~IsNone(p.min) /\ v[2] < p.min[2]
    \/ ~IsNone(p.max) /\ v[2] > p.max[2]

IsNumericCall == PARAMS[1].cls = "NumericParameter" /\ call[1] = "check"
IsCategoricalCall == PARAMS[1].cls = "CategoricalParameter" /\ call[1] = "check"

\* C3: NumericParameter.check of a present value v returns v itself and raises
\* nothing; it logs exactly one record, a warning, when v < min or v > max
\* (one record also when both limits are violated), and logs nothing when v
\* lies within the limits, the limits themselves included.
C3_NumericCheckAdvisory ==
    [][ (IsNumericCall' /\ ~IsNone(call'[2])) =>
          /\ ret' = <<"return", call'[2]>>
          /\ exc' = None
          /\ IF OutOfRange(PARAMS[1], call'[2])
               THEN /\ Len(log') = Len(log) + 1
                    /\ SubSeq(log', 1, Len(log)) = log
                    /\ log'[Len(log')].level = "warning"
                    /\ log'[Len(log')].name = PARAMS[1].name
                    /\ log'[Len(log')].value = call'[2]
               ELSE log' = log ]_vars

\* C3 witness: a value above max and below min (min > max) was checked, came
\* back unchanged, and one warning was logged
C3_Witness ==
    /\ IsNumericCall
    /\ ~IsNone(call[2])
    /\ ~IsNone(PARAMS[1].min) /\ ~IsNone(PARAMS[1].max)
    /\ call[2][2] < PARAMS[1].min[2] /\ call[2][2] > PARAMS[1].max[2]
    /\ ret = <<"return", call[2]>>
    /\ i = 1
    /\ Len(log) = 1

\* C4: CategoricalParameter.check of a present value v returns v itself; when
\* v is not one of the options it logs exactly one record, at level error if
\* and only if the parameter is required and at level warning otherwise; when
\* v is one of the options it logs nothing.
C4_CategoricalCheckSeverity ==
    [][ (IsCategoricalCall' /\ ~IsNone(call'[2])) =>
          /\ ret' = <<"return", call'[2]>>
          /\ IF \E k \in 1..Len(PARAMS[1].options) : PARAMS[1].options[k] = call'[2]
               THEN log' = log
               ELSE /\ Len(log') = Len(log) + 1
                    /\ SubSeq(log', 1, Len(log)) = log
                    /\ log'[Len(log')].name = PARAMS[1].name
                    /\ log'[Len(log')].value = call'[2]
                    /\ (log'[Len(log')].level = "error") <=> PARAMS[1].required
                    /\ (log'[Len(log')].level = "warning") <=> ~PARAMS[1].required ]_vars

\* C4 witness: a required categorical parameter was given a value that is not
\* an option; the value came back and one error record was logged
C4_Witness ==
    /\ IsCategoricalCall
    /\ PARAMS[1].required
    /\ call[2] = Str("XX")
    /\ PARAMS[1].options = <<Str("SS"), Str("NM"), Str("RS")>>
    /\ ret = <<"return", Str("XX")>>
    /\ i = 1
    /\ Len(log) = 1
    /\ log[1].level = "error"

---------------------------------------------------------------------------
(* Model.__init__ and Model._check_inputs *)

\* kwds.get(name, None) and self.params.get(name, None)
Get(d, name) == IF name \in DOMAIN d THEN d[name] ELSE None

\* a faulty selection: every keyword given is kept
SelectParamsAll(P, kw) ==
    [n \in {P[k].name : k \in 1..Len(P)} \cup DOMAIN kw |-> Get(kw, n)]

\* {p.name: kwds.get(p.name, None) for p in self.PARAMS}
SelectParams(P, kw) ==
    [n \in {P[k].name : k \in 1..Len(P)} |-> Get(kw, n)]

\* the instance handed back by a constructor that ran to its end
Instance == <<"instance", "Model">>

\* Model.__init__, up to the call of _check_inputs
Construct ==
    /\ pc = "new"
    /\ params' = SelectParams(PARAMS, kwds)
    /\ _ln_resp' = None
    /\ _ln_std' = None
    /\ i' = 1
    /\ pc' = "check_inputs"
    /\ call' = <<"Model", None>>
    /\ UNCHANGED <<PARAMS, kwds, log, exc, ret>>
    /\ UNCHANGED <<PERIODS, INDICES_PSA, INDEX_PGA, INDEX_PGV, INDEX_PGD,
                   PGV_SCALE, PGD_SCALE>>

\* a faulty loop: the parameters are taken last to first
LoopItemReversed(P, k) == P[Len(P) + 1 - k]

\* for p in self.PARAMS: the parameter of the k-th turn of the loop
LoopItem(P, k) == P[k]

\* one turn of the loop of _check_inputs:
\*   self.params[p.name] = p.check(self.params.get(p.name, None))
\* an exception raised by check leaves the loop, _check_inputs and __init__
CheckInput ==
    /\ pc = "check_inputs"
    /\ i <= Len(PARAMS)
    /\ LET p == LoopItem(PARAMS, i)
           r == Check(p, Get(params, p.name))
       IN  /\ log' = log \o r.events
           /\ IF r.raised
                THEN /\ exc' = r.exc
                     /\ ret' = <<"raise", r.exc>>
                     /\ pc' = "raised"
                     /\ UNCHANGED <<params, i>>
                ELSE /\ params' = [params EXCEPT ![p.name] = r.value]
                     /\ i' = i + 1
                     /\ UNCHANGED <<exc, ret, pc>>
    /\ UNCHANGED <<PARAMS, kwds, call>>
    /\ UNCHANGED respVars

\* the loop is over: _check_inputs and __init__ return, the caller holds the
\* instance
Constructed ==
    /\ pc = "check_inputs"
    /\ i > Len(PARAMS)
    /\ pc' = "constructed"
    /\ ret' = <<"return", Instance>>
    /\ UNCHANGED <<PARAMS, kwds, params, i, log, exc, call>>
    /\ UNCHANGED respVars

---------------------------------------------------------------------------
(* SpecCtor: the construction of a model, over the declared parameter lists
   and the keyword arguments of the caller *)

Names == {"mag", "dist", "mechanism"}
KwNames == Names \cup {"extra"}

\* the declarations of a parameter called name
Declarations(name) ==
    IF name = "mag"
      THEN {NumericParameter("mag", r, b[1], b[2], None) :
              r \in BOOLEAN, b \in {<<None, None>>, <<Num(1), Num(2)>>}}
    ELSE IF name = "dist"
      THEN {NumericParameter("dist", r, b[1], b[2], Num(1)) :
              r \in BOOLEAN, b \in {<<None, None>>, <<Num(1), Num(2)>>}}
    ELSE {CategoricalParameter("mechanism", r, <<Str("SS"), Str("NM"), Str("RS")>>,
                               Str("")) : r \in BOOLEAN}

\* the values a caller may give under a keyword
KwValues(name) ==
    IF name = "mechanism" THEN {None, Str("SS"), Str("XX")}
    ELSE IF name = "extra" THEN {Num(1)}
    ELSE {None, Num(0), Num(1), Num(MaxVal)}

NamesOf(P) == {P[k].name : k \in 1..Len(P)}

\* the lists of at most n declarations with pairwise different names
RECURSIVE ParamLists(_)
ParamLists(n) ==
    IF n = 0 THEN {<<>>}
    ELSE LET shorter == ParamLists(n - 1) IN
         shorter \cup
         UNION {UNION {{Append(P, d) : d \in Declarations(nm)} :
                          nm \in Names \ NamesOf(P)} :
                    P \in {Q \in shorter : Len(Q) = n - 1}}

\* the keyword dictionaries: a value for each keyword of some set of keywords
KwDicts ==
    UNION {{f \in [S -> UNION {KwValues(n) : n \in KwNames}] :
               \A n \in S : f[n] \in KwValues(n)} : S \in SUBSET KwNames}

InitCtor ==
    /\ PARAMS \in ParamLists(MaxParams)
    /\ kwds \in KwDicts
    /\ params = <<>>
    /\ pc = "new"
    /\ i = 0
    /\ log = <<>>
    /\ exc = None
    /\ NoResponse
    /\ call = <<"none", None>>
    /\ ret = <<"none", None>>

NextCtor == Construct \/ CheckInput \/ Constructed

SpecCtor == InitCtor /\ [][NextCtor]_vars

---------------------------------------------------------------------------
(* Claims about the construction *)

\* the caller gave no value for the parameter: no keyword, or None
Absent(p) == IsNone(Get(kwds, p.name))

\* the declared positions of the required parameters the caller left out
MissingRequired == {k \in 1..Len(PARAMS) : PARAMS[k].required /\ Absent(PARAMS[k])}

\* the first of them in declaration order (0 when there is none)
FirstMissing ==
    IF MissingRequired = {} THEN 0
    ELSE CHOOSE k \in MissingRequired : \A m \in MissingRequired : k <= m

ConstructionOver == pc \in {"constructed", "raised"}

\* C1: when a required parameter (numeric or categorical) is given no value
\* the construction ends with the missing-parameter error, which carries the
\* name of such a parameter, and hands back no instance; when every required
\* parameter is given a value the construction runs to its end and hands back
\* the instance.
C1_RequiredParameters ==
    /\ ~ConstructionOver => ENABLED NextCtor
    /\ ConstructionOver =>
         IF MissingRequired # {}
           THEN /\ pc = "raised"
                /\ ret[1] = "raise"
                /\ ret[2][1] = "ValueError"
                /\ \E k \in MissingRequired : ret[2] = ValueError(PARAMS[k].name)
                /\ exc = ret[2]
           ELSE /\ pc = "constructed"
                /\ ret = <<"return", Instance>>
                /\ exc = None

\* C1 witness: a required categorical parameter, declared second, was left
\* out and the construction ended with the error naming it
C1_Witness ==
    /\ pc = "raised"
    /\ Len(PARAMS) = 2
    /\ MissingRequired = {2}
    /\ PARAMS[2].cls = "CategoricalParameter"
    /\ ret = <<"raise", ValueError("mechanism")>>

\* the value params must hold for a declared parameter
Resolved(p) == IF Absent(p) THEN p.default ELSE kwds[p.name]

\* C9: after a construction that ran to its end, params has one entry for
\* each declared name and no other (undeclared keywords are dropped); the
\* entry is the given value when one was given and is not None, and the
\* parameter's default otherwise; values outside the limits or the options
\* are stored as given, and they never end the construction: it is ended
\* only by a required parameter left out.
C9_ParamsResolved ==
    /\ pc = "constructed" =>
         /\ DOMAIN params = NamesOf(PARAMS)
         /\ \A k \in 1..Len(PARAMS) : params[PARAMS[k].name] = Resolved(PARAMS[k])
    /\ pc = "raised" => MissingRequired # {}

\* C9 witness: the construction ended with an undeclared keyword dropped, a
\* value below the limit stored as given (and a warning logged), and an
\* explicit None replaced by the default
C9_Witness ==
    /\ pc = "constructed"
    /\ Len(PARAMS) = 2
    /\ "extra" \in DOMAIN kwds
    /\ PARAMS[1].name = "mag" /\ PARAMS[1].min = Num(1)
    /\ "mag" \in DOMAIN kwds /\ kwds["mag"] = Num(0) /\ params["mag"] = Num(0)
    /\ PARAMS[2].name = "dist"
    /\ "dist" \in DOMAIN kwds /\ kwds["dist"] = None /\ params["dist"] = Num(1)
    /\ Len(log) = 1

\* the given value breaks a limit or is no option
SoftViolation(p) ==
    /\ ~Absent(p)
    /\ IF p.cls = "NumericParameter"
         THEN OutOfRange(p, kwds[p.name])
         ELSE \A k \in 1..Len(p.options) : p.options[k] # kwds[p.name]

\* the names of the first n declared parameters whose value is a soft
\* violation, in declaration order
RECURSIVE ViolatorsUpTo(_)
ViolatorsUpTo(n) ==
    IF n = 0 THEN <<>>
    ELSE ViolatorsUpTo(n - 1) \o
         (IF SoftViolation(PARAMS[n]) THEN <<PARAMS[n].name>> ELSE <<>>)

LogNames == [k \in 1..Len(log) |-> log[k].name]

\* C10: the parameters are checked one at a time in declaration order, so the
\* records logged are those of the declared parameters in declaration order;
\* when required parameters are left out the construction ends at the first
\* of them in declaration order: the records of the parameters declared
\* before it are logged, nothing is logged for it or for a later one, and no
\* instance is handed back.
C10_DeclarationOrder ==
    /\ pc = "check_inputs" =>
         /\ i - 1 <= Len(PARAMS)
         /\ FirstMissing # 0 => i <= FirstMissing
         /\ LogNames = ViolatorsUpTo(i - 1)
    /\ pc = "constructed" => LogNames = ViolatorsUpTo(Len(PARAMS))
    /\ pc = "raised" =>
         /\ i = FirstMissing
         /\ LogNames = ViolatorsUpTo(FirstMissing - 1)
         /\ ret = <<"raise", ValueError(PARAMS[FirstMissing].name)>>
    /\ FirstMissing # 0 => pc # "constructed" /\ ret[1] # "return"

\* C10 witness: the first declared parameter logged its warning, the second,
\* required, was left out and ended the construction
C10_Witness ==
    /\ pc = "raised"
    /\ Len(PARAMS) = 2
    /\ FirstMissing = 2
    /\ SoftViolation(PARAMS[1])
    /\ Len(log) = 1
    /\ log[1].name = PARAMS[1].name

---------------------------------------------------------------------------
(* Numbers.  The log-domain numbers (_ln_resp, _ln_std, the logarithms of
   the periods, the interpolants) are rationals <<"rat", n, d>> in lowest
   terms with d > 0.  A linear-domain number c * e^(n/d) is <<"real", c, n, d>>:
   for integer c # 0 and rational n/d this form is unique, so two such numbers
   are equal exactly when their forms are. *)

Abs(n) == IF n < 0 THEN -n ELSE n

RECURSIVE GCD(_, _)
GCD(a, b) == IF b = 0 THEN a ELSE GCD(b, a % b)

Rat(n, d) ==
    LET g == GCD(Abs(n), Abs(d))
        sgn == IF d < 0 THEN -1 ELSE 1
    IN  <<"rat", sgn * (n \div g), sgn * (d \div g)>>

RatAdd(a, b) == Rat(a[2] * b[3] + b[2] * a[3], a[3] * b[3])
RatSub(a, b) == Rat(a[2] * b[3] - b[2] * a[3], a[3] * b[3])
RatMul(a, b) == Rat(a[2] * b[2], a[3] * b[3])
RatDiv(a, b) == Rat(a[2] * b[3], a[3] * b[2])
RatLt(a, b) == a[2] * b[3] < b[2] * a[3]
RatGe(a, b) == ~RatLt(a, b)
RatGt(a, b) == RatLt(b, a)

\* np.exp of a log-domain number
Exp(q) == <<"real", 1, q[2], q[3]>>

\* a linear-domain number times a scale factor
Times(r, c) == <<"real", r[2] * c, r[3], r[4]>>

\* np.log of a period.  The periods of the model are the powers of two, and the
\* logarithm is counted in units of ln 2: np.interp depends on its abscissae
\* only through comparisons and ratios of differences, which the unit leaves
\* as they are.
RECURSIVE Log2(_)
Log2(p) == IF p <= 1 THEN 0 ELSE 1 + Log2(p \div 2)

Log(p) == Rat(Log2(p), 1)

---------------------------------------------------------------------------
(* ndarrays: <<"array", seq>>, indexed from 0 as in Python *)

Size(a) == Len(a[2])

\* a[k] for an integer k
Item(a, k) == a[2][k + 1]

\* a[idx] for an array of integers idx
Take(a, idx) == Array([m \in 1..Size(idx) |-> Item(a, idx[2][m])])

\* np.exp of an array
ExpAll(a) == Array([m \in 1..Size(a) |-> Exp(a[2][m])])

\* np.log of an array
LogAll(a) == Array([m \in 1..Size(a) |-> Log(a[2][m])])

---------------------------------------------------------------------------
(* np.interp(x, xp, fp), with left and right left at their defaults: numpy's
   arr_interp and its binary_search_with_guess, which the two interpolating
   accessors call *)

LIKELY_IN_CACHE_SIZE == 8

\* for (i = 1; i < len && key >= arr[i]; ++i); return i - 1;
RECURSIVE LinearSearch(_, _, _)
LinearSearch(key, arr, k) ==
    IF k < Size(arr) /\ RatGe(key, Item(arr, k))
      THEN LinearSearch(key, arr, k + 1)
      ELSE k - 1

\* while (imin < imax) { imid = imin + ((imax - imin) >> 1); ... } return imin - 1;
RECURSIVE Bisect(_, _, _, _)
Bisect(key, arr, imin, imax) ==
    IF imin < imax
      THEN LET imid == imin + ((imax - imin) \div 2) IN
           IF RatGe(key, Item(arr, imid))
             THEN Bisect(key, arr, imid + 1, imax)
             ELSE Bisect(key, arr, imin, imid)
      ELSE imin - 1

\* a faulty search: the guess is trusted as soon as the key is not below it
SearchTrustingGuess(key, arr, guess) ==
    LET len == Size(arr) IN
    IF RatGt(key, Item(arr, len - 1)) THEN len
    ELSE IF RatLt(key, Item(arr, 0)) THEN -1
    ELSE IF guess >= 0 /\ guess < len /\ RatGe(key, Item(arr, guess)) THEN guess
    ELSE LinearSearch(key, arr, 1)

\* binary_search_with_guess(key, arr, len, guess): the index j with
\* arr[j] <= key < arr[j+1] of an increasing arr; -1 below arr[0], len above
\* arr[len-1]
BinarySearchWithGuess(key, arr, guess) ==
    LET len == Size(arr) IN
    IF RatGt(key, Item(arr, len - 1)) THEN len
    ELSE IF RatLt(key, Item(arr, 0)) THEN -1
    ELSE IF len <= 4 THEN LinearSearch(key, arr, 1)
    ELSE
      LET g1 == IF guess > len - 3 THEN len - 3 ELSE guess
          g == IF g1 < 1 THEN 1 ELSE g1
      IN
      IF RatLt(key, Item(arr, g))
        THEN IF RatLt(key, Item(arr, g - 1))
               THEN Bisect(key, arr,
                           IF g > LIKELY_IN_CACHE_SIZE
                              /\ RatGe(key, Item(arr, g - LIKELY_IN_CACHE_SIZE))
                             THEN g - LIKELY_IN_CACHE_SIZE ELSE 0,
                           g - 1)
               ELSE g - 1
      ELSE IF RatLt(key, Item(arr, g + 1)) THEN g
      ELSE IF RatLt(key, Item(arr, g + 2)) THEN g + 1
      ELSE Bisect(key, arr, g + 2,
                  IF g < len - LIKELY_IN_CACHE_SIZE - 1
                     /\ RatLt(key, Item(arr, g + LIKELY_IN_CACHE_SIZE))
                    THEN g + LIKELY_IN_CACHE_SIZE ELSE len)

\* a faulty interpolant: beyond the ends the first or last segment is continued
InterpolantExtrapolating(x_val, xp, fp, j) ==
    LET n == Size(xp)
        k == IF n = 1 THEN 0
             ELSE IF j < 0 THEN 0
             ELSE IF j > n - 2 THEN n - 2
             ELSE j
    IN
    IF n = 1 \/ Item(xp, k + 1) = Item(xp, k) THEN Item(fp, k)
    ELSE RatAdd(RatMul(RatDiv(RatSub(Item(fp, k + 1), Item(fp, k)),
                              RatSub(Item(xp, k + 1), Item(xp, k))),
                       RatSub(x_val, Item(xp, k))),
                Item(fp, k))

\* the body of arr_interp's loop once j is found: lval = fp[0] below the
\* table, rval = fp[-1] above it, fp[j] at the last point, and
\* slope * (x - xp[j]) + fp[j] on the segment j
Interpolant(x_val, xp, fp, j) ==
    IF j = -1 THEN Item(fp, 0)
    ELSE IF j = Size(xp) THEN Item(fp, Size(fp) - 1)
    ELSE IF j = Size(xp) - 1 THEN Item(fp, j)
    ELSE RatAdd(RatMul(RatDiv(RatSub(Item(fp, j + 1), Item(fp, j)),
                              RatSub(Item(xp, j + 1), Item(xp, j))),
                       RatSub(x_val, Item(xp, j))),
                Item(fp, j))

\* arr_interp's loop from position m on, j being the index found for the
\* position before (0 at the start): each search starts from the last index
RECURSIVE InterpLoop(_, _, _, _, _)
InterpLoop(x, xp, fp, m, j) ==
    IF m > Size(x) THEN <<>>
    ELSE LET jj == BinarySearchWithGuess(x[2][m], xp, j) IN
         <<Interpolant(x[2][m], xp, fp, jj)>> \o InterpLoop(x, xp, fp, m + 1, jj)

np_interp(x, xp, fp) == Array(InterpLoop(x, xp, fp, 1, 0))

---------------------------------------------------------------------------
(* The accessors of Model *)

\* Model.periods
periods == Take(PERIODS, INDICES_PSA)

\* Model._resp for an array of indices: np.exp(self._ln_resp[index])
RespArray(index) == ExpAll(Take(_ln_resp, index))

\* Model._resp for one index, or None
Resp(index) == IF ~IsNone(index) THEN Exp(Item(_ln_resp, index[2])) ELSE None

\* Model.spec_accels
spec_accels == RespArray(INDICES_PSA)

\* Model.ln_stds
ln_stds == Take(_ln_std, INDICES_PSA)

\* a faulty interp_spec_accels: the logarithm of the model's periods is left out
interp_spec_accels_linear_periods(q) ==
    ExpAll(np_interp(LogAll(q),
                     Array([m \in 1..Size(periods) |-> Rat(periods[2][m], 1)]),
                     Take(_ln_resp, INDICES_PSA)))

\* Model.interp_spec_accels
interp_spec_accels(q) ==
    ExpAll(np_interp(LogAll(q), LogAll(periods), Take(_ln_resp, INDICES_PSA)))

\* Model.interp_ln_stds
interp_ln_stds(q) ==
    np_interp(LogAll(q), LogAll(periods), Take(_ln_std, INDICES_PSA))

\* the outcome of a scalar accessor on an index that is None: the class
\* NotImplementedError is the value of the return statement
Unsupported == <<"return", Type("NotImplementedError")>>

\* Model.pga
pga == IF IsNone(INDEX_PGA) THEN Unsupported ELSE <<"return", Resp(INDEX_PGA)>>

\* Model.ln_std_pga
ln_std_pga ==
    IF IsNone(INDEX_PGA) THEN Unsupported ELSE <<"return", Item(_ln_std, INDEX_PGA[2])>>

\* a faulty pgv: the scale factor is left out
pgvUnscaled ==
    IF IsNone(INDEX_PGV) THEN Unsupported ELSE <<"return", Resp(INDEX_PGV)>>

\* Model.pgv
pgv ==
    IF IsNone(INDEX_PGV) THEN Unsupported
    ELSE <<"return", Times(Resp(INDEX_PGV), PGV_SCALE)>>

\* Model.ln_std_pgv
ln_std_pgv ==
    IF IsNone(INDEX_PGV) THEN Unsupported ELSE <<"return", Item(_ln_std, INDEX_PGV[2])>>

\* Model.pgd
pgd ==
    IF IsNone(INDEX_PGD) THEN Unsupported
    ELSE <<"return", Times(Resp(INDEX_PGD), PGD_SCALE)>>

\* Model.ln_std_pgd
ln_std_pgd ==
    IF IsNone(INDEX_PGD) THEN Unsupported ELSE <<"return", Item(_ln_std, INDEX_PGD[2])>>

\* the caller reads an accessor or calls a method of a computed model: the
\* outcome goes to the caller and the model is left as it is.  The accessors
\* write nothing, so a second call would start from the same model: a run
\* makes one call.
Answer(op, arg, outcome) ==
    /\ pc = "computed"
    /\ pc' = "answered"
    /\ call' = <<op, arg>>
    /\ ret' = outcome
    /\ UNCHANGED <<PARAMS, kwds, params, i, log, exc>>
    /\ UNCHANGED respVars

GetPga == Answer("pga", None, pga)
GetLnStdPga == Answer("ln_std_pga", None, ln_std_pga)
GetPgv == Answer("pgv", None, pgv)
GetLnStdPgv == Answer("ln_std_pgv", None, ln_std_pgv)
GetPgd == Answer("pgd", None, pgd)
GetLnStdPgd == Answer("ln_std_pgd", None, ln_std_pgd)
GetPeriods == Answer("periods", None, <<"return", periods>>)
GetSpecAccels == Answer("spec_accels", None, <<"return", spec_accels>>)
GetLnStds == Answer("ln_stds", None, <<"return", ln_stds>>)

---------------------------------------------------------------------------
(* The models looked at: period tables, index ranges and response arrays as
   a concrete model class declares and computes them *)

\* PERIODS of a model class: 2, 4, 16, 32 and 128 s in the order of the class
PeriodTables ==
    {Array(<<2, 4, 16, 32, 128>>),
     Array(<<128, 32, 16, 4, 2>>),
     Array(<<2, 32, 4, 16, 128>>)}

\* np.arange(a, b)
Arange(a, b) == Array([m \in 1..(b - a) |-> a + m - 1])

\* INDICES_PSA of a model class: a range of the slots of the table
IndexRanges(n) == {Arange(a, b) : a \in 0..(n - 1), b \in 1..n} \ {Array(<<>>)}

Rats(s) == Array([m \in 1..Len(s) |-> Rat(s[m], 1)])

\* _ln_resp and _ln_std as the computation of a model leaves them
ResponseTables ==
    {<<Rats(<<0, 2, 1, 4, 3>>), Rats(<<1, 1, 2, 3, 5>>)>>,
     <<Rats(<<3, 0, 0, 2, 4>>), Rats(<<2, 0, 3, 1, 1>>)>>}

ScaleFactors == {1, 2, 100}

\* the periods a caller asks for
QueryPeriods == {2 ^ k : k \in 0..MaxLogPeriod}

RECURSIVE Queries(_)
Queries(n) ==
    IF n = 0 THEN {<<>>}
    ELSE LET shorter == Queries(n - 1) IN
         shorter \cup {Append(q, t) : q \in {r \in shorter : Len(r) = n - 1},
                                      t \in QueryPeriods}

\* the state of the variables of the construction once a model is computed
Computed ==
    /\ PARAMS = <<>>
    /\ kwds = <<>>
    /\ params = <<>>
    /\ pc = "computed"
    /\ i = 1
    /\ log = <<>>
    /\ exc = None
    /\ call = <<"Model", None>>
    /\ ret = <<"return", Instance>>

---------------------------------------------------------------------------
(* SpecScalar: the scalar accessors of a computed model *)

InitScalar ==
    /\ Computed
    /\ PERIODS = Array(<<2, 4, 16, 32, 128>>)
    /\ INDICES_PSA = Arange(0, 5)
    /\ INDEX_PGA \in {None} \cup {Num(k) : k \in 0..4}
    /\ INDEX_PGV \in {None} \cup {Num(k) : k \in 0..4}
    /\ INDEX_PGD \in {None} \cup {Num(k) : k \in 0..4}
    /\ PGV_SCALE \in ScaleFactors
    /\ PGD_SCALE \in ScaleFactors
    /\ \E t \in ResponseTables : _ln_resp = t[1] /\ _ln_std = t[2]

NextScalar ==
    \/ GetPga
    \/ GetLnStdPga
    \/ GetPgv
    \/ GetLnStdPgv
    \/ GetPgd
    \/ GetLnStdPgd

SpecScalar == InitScalar /\ [][NextScalar]_vars

---------------------------------------------------------------------------
(* SpecInterp: the period-indexed accessors of a computed model *)

InitInterp ==
    /\ Computed
    /\ PERIODS \in PeriodTables
    /\ INDICES_PSA \in IndexRanges(5)
    /\ INDEX_PGA = None
    /\ INDEX_PGV = None
    /\ INDEX_PGD = None
    /\ PGV_SCALE = 1
    /\ PGD_SCALE = 1
    /\ \E t \in ResponseTables : _ln_resp = t[1] /\ _ln_std = t[2]

\* what a caller asks: any short list of periods, or the model's own periods
CallerQueries == Queries(MaxQueryLen) \cup {periods[2]}

InterpSpecAccels ==
    /\ pc = "computed"
    /\ \E q \in CallerQueries :
         Answer("interp_spec_accels", Array(q),
                <<"return", interp_spec_accels(Array(q))>>)

InterpLnStds ==
    /\ pc = "computed"
    /\ \E q \in CallerQueries :
         Answer("interp_ln_stds", Array(q), <<"return", interp_ln_stds(Array(q))>>)

NextInterp ==
    \/ InterpSpecAccels
    \/ InterpLnStds
    \/ GetPeriods
    \/ GetSpecAccels
    \/ GetLnStds

SpecInterp == InitInterp /\ [][NextInterp]_vars

---------------------------------------------------------------------------
(* Claims about the scalar accessors *)

\* the scalar accessors with the index each one reads
ScalarIndex ==
    [pga |-> INDEX_PGA, ln_std_pga |-> INDEX_PGA,
     pgv |-> INDEX_PGV, ln_std_pgv |-> INDEX_PGV,
     pgd |-> INDEX_PGD, ln_std_pgd |-> INDEX_PGD]

IsScalarCall == pc = "answered" /\ call[1] \in DOMAIN ScalarIndex

\* C2: reading pga, ln_std_pga, pgv, ln_std_pgv, pgd or ln_std_pgd of a model
\* whose index for it is None ends with an error raised to the caller, never
\* with a value returned.
C2_UnsupportedRaises ==
    (IsScalarCall /\ IsNone(ScalarIndex[call[1]])) =>
        /\ ret[1] = "raise"
        /\ ret[1] # "return"

\* C8: with the index set, pga is e^(_ln_resp[INDEX_PGA]) with no factor, pgv
\* is e^(_ln_resp[INDEX_PGV]) times PGV_SCALE, pgd is e^(_ln_resp[INDEX_PGD])
\* times PGD_SCALE; ln_std_pga, ln_std_pgv, ln_std_pgd are the entries of
\* _ln_std as stored; no accessor changes _ln_resp or _ln_std.
C8_ScalarScaling ==
    [][ pc' = "answered" =>
          /\ _ln_resp' = _ln_resp
          /\ _ln_std' = _ln_std
          /\ (call'[1] \in DOMAIN ScalarIndex /\ ~IsNone(ScalarIndex[call'[1]])) =>
               LET k == ScalarIndex[call'[1]][2] + 1
                   x == _ln_resp[2][k]
               IN  /\ ret'[1] = "return"
                   /\ call'[1] = "pga" => ret'[2] = <<"real", 1, x[2], x[3]>>
                   /\ call'[1] = "pgv" => ret'[2] = <<"real", PGV_SCALE, x[2], x[3]>>
                   /\ call'[1] = "pgd" => ret'[2] = <<"real", PGD_SCALE, x[2], x[3]>>
                   /\ call'[1] \in {"ln_std_pga", "ln_std_pgv", "ln_std_pgd"} =>
                        ret'[2] = _ln_std[2][k] ]_vars

\* C8 witness: _ln_resp[INDEX_PGV] = 0 and PGV_SCALE = 2, and pgv was 2
C8_Witness ==
    /\ pc = "answered"
    /\ call[1] = "pgv"
    /\ ~IsNone(INDEX_PGV)
    /\ Item(_ln_resp, INDEX_PGV[2]) = Rat(0, 1)
    /\ PGV_SCALE = 2
    /\ ret = <<"return", <<"real", 2, 0, 1>>>>

---------------------------------------------------------------------------
(* Claims about the interpolating accessors *)

Increasing(a) == \A m \in 1..(Size(a) - 1) : a[2][m] <= a[2][m + 1]
StrictlyIncreasing(a) == \A m \in 1..(Size(a) - 1) : a[2][m] < a[2][m + 1]

IsInterpCall == pc = "answered" /\ call[1] \in {"interp_spec_accels", "interp_ln_stds"}

\* the log-domain array the call interpolates, and its answer in the log domain
Tabulated == IF call[1] = "interp_spec_accels" THEN Take(_ln_resp, INDICES_PSA)
             ELSE Take(_ln_std, INDICES_PSA)

\* a log-domain value as the call returns it
AsReturned(v) == IF call[1] = "interp_spec_accels" THEN <<"real", 1, v[2], v[3]>> ELSE v

\* the line through the tabulated points a and b (positions from 1), at log2 t
LineThrough(a, b, t) ==
    LET xa == Log2(periods[2][a])
        xb == Log2(periods[2][b])
        ya == Tabulated[2][a]
        yb == Tabulated[2][b]
    IN  RatAdd(ya, RatMul(RatSub(yb, ya), Rat(t - xa, xb - xa)))

\* C5 as stated: no bound is checked, and a period below the smallest or above
\* the largest tabulated period gets the value of the line through the
\* nearest two tabulated points, in the log-log plane (here: for a model
\* with at least two periods, in strictly increasing order).
C5_Extrapolates ==
    (IsInterpCall /\ StrictlyIncreasing(periods) /\ Size(periods) >= 2) =>
        /\ ret[1] = "return"
        /\ \A m \in 1..Size(call[2]) :
             LET t == call[2][2][m]
                 n == Size(periods)
             IN  /\ t < periods[2][1] =>
                       ret[2][2][m] = AsReturned(LineThrough(1, 2, Log2(t)))
                 /\ t > periods[2][n] =>
                       ret[2][2][m] = AsReturned(LineThrough(n - 1, n, Log2(t)))

\* C5 as amended: no bound is checked and no error is raised; a period above
\* the last tabulated period gets the value tabulated for the last period,
\* and otherwise a period below the first tabulated period gets the value
\* tabulated for the first: beyond the table the result is held at the end
\* value (of the largest and of the smallest period, when the periods are
\* increasing), not extrapolated.
C5_HeldAtEnds ==
    IsInterpCall =>
        /\ ret[1] = "return"
        /\ Size(ret[2]) = Size(call[2])
        /\ \A m \in 1..Size(call[2]) :
             LET t == call[2][2][m]
                 n == Size(periods)
             IN  IF t > periods[2][n] THEN ret[2][2][m] = AsReturned(Tabulated[2][n])
                 ELSE t < periods[2][1] => ret[2][2][m] = AsReturned(Tabulated[2][1])

\* C5 witness: increasing periods, ends of different value, one period asked
\* below the table and one above, each answered with the end value
C5_Witness ==
    /\ IsInterpCall
    /\ call[1] = "interp_spec_accels"
    /\ StrictlyIncreasing(periods) /\ Size(periods) >= 2
    /\ Size(call[2]) = 2
    /\ call[2][2][1] < periods[2][1]
    /\ call[2][2][2] > periods[2][Size(periods)]
    /\ Tabulated[2][1] # Tabulated[2][2]
    /\ ret[2][2][1] = Exp(Tabulated[2][1])
    /\ ret[2][2][2] = Exp(Tabulated[2][Size(periods)])

\* the call asked for exactly the model's own periods
AskedOwnPeriods == IsInterpCall /\ call[2] = periods

\* what the properties spec_accels and ln_stds hold for the call
OwnValues == IF call[1] = "interp_spec_accels" THEN spec_accels ELSE ln_stds

\* C6 as stated: interp_spec_accels at the model's own periods, in whatever
\* order the model declares them, is spec_accels element by element, and
\* interp_ln_stds at them is ln_stds.
C6_NativeAnyOrder == AskedOwnPeriods => ret = <<"return", OwnValues>>

\* C6 as amended: for a model whose own periods are in strictly increasing
\* order, interp_spec_accels at exactly these periods is spec_accels element
\* by element, and interp_ln_stds at them is ln_stds.
C6_NativeIncreasing ==
    (AskedOwnPeriods /\ StrictlyIncreasing(periods)) => ret = <<"return", OwnValues>>

\* C6 witness: a model with five periods in increasing order was asked for
\* them and answered with spec_accels
C6_Witness ==
    /\ AskedOwnPeriods
    /\ call[1] = "interp_spec_accels"
    /\ Size(periods) = 5
    /\ StrictlyIncreasing(periods)
    /\ ret[2] = spec_accels

\* the same call made for the list q
Recall(q) == IF call[1] = "interp_spec_accels" THEN interp_spec_accels(Array(q))
             ELSE interp_ln_stds(Array(q))

Reverse(q) == [m \in 1..Len(q) |-> q[Len(q) + 1 - m]]

\* the answer's m-th value is the answer for the m-th period asked alone, and
\* the answer for the reversed list is the reversed answer
OrderPreserved ==
    /\ \A m \in 1..Size(call[2]) : ret[2][2][m] = Recall(<<call[2][2][m]>>)[2][1]
    /\ Recall(Reverse(call[2][2]))[2] = Reverse(ret[2][2])

\* C7 as stated: for any list of periods, sorted or not, the i-th value of
\* the answer is the interpolated value of the i-th period and depends on no
\* other period asked; the answer for a permuted list is the permuted answer.
C7_OrderAnyModel == IsInterpCall => OrderPreserved

\* C7 as amended: for a model whose own periods are in increasing order, for
\* any list of periods, sorted or not, the i-th value of the answer is the
\* interpolated value of the i-th period and depends on no other period
\* asked; the answer for a permuted list is the permuted answer.
C7_OrderIncreasing == (IsInterpCall /\ Increasing(periods)) => OrderPreserved

\* C7 witness: five increasing periods, two periods asked in descending
\* order, the second of them strictly inside the table
C7_Witness ==
    /\ IsInterpCall
    /\ Size(periods) = 5
    /\ Increasing(periods)
    /\ Size(call[2]) = 2
    /\ call[2][2][1] > call[2][2][2]
    /\ call[2][2][2] > periods[2][1]
    /\ ret[2][2][1] # ret[2][2][2]
    /\ OrderPreserved

=============================================================================
